---------------------------- MODULE Spec2Model ----------------------------
(***************************************************************************)
(* Model of the demo-data template engine and delivery pipeline            *)
(* (log_template_processor.py, demo_data_loader_playbook.py, main.py,      *)
(* extension.py).                                                          *)
(*                                                                         *)
(* Text is modelled as a sequence of tokens (each token a piece of the     *)
(* text); the text itself is the concatenation of the tokens.  The tokens  *)
(* "{{" and "}}" are the placeholder markers, "\n" is the line break.      *)
(* A calendar date object is its day number (days since 1970-01-01); a     *)
(* formatted date is the record of its printed fields [y, m, d].           *)
(***************************************************************************)
EXTENDS Integers, Sequences, FiniteSets, TLC

VARIABLES
    \* ---- distribute_dates, run on its own (SpecDist)
    dPc,            \* "call" | "loop" | "ret"
    dNum,           \* num_lines
    dDates,         \* dates
    dI,             \* loop variable i
    dOut,           \* date_assignments
    dIdx,           \* the date_idx of every iteration so far
    dDivs,          \* number of divisions performed so far
    \* ---- render_template_in_value, run on its own (SpecRender)
    rPc,            \* "call" | "ret"
    rValue,         \* value
    rVars,          \* template_vars
    rOut,           \* the returned value
    \* ---- one run of the pipeline through an entry path (Spec)
    path,           \* "load" (POST /load) | "ext" (load_demo_data action)
                    \* | "cli" (main) | "playbook"
    content,        \* the text the template source holds
    delay,          \* the delay the caller asked for (milliseconds)
    sink,           \* the answers the endpoint of this run can give
    clock,          \* the date the clock shows
    midnights,      \* the date changes still to come while the run processes
    pc,             \* "start" | "fetched" | "render" | "send_json"
                    \* | "send_events" | "send_lines" | "done"
    template_content,
    mode,           \* "json" (an array of events) | "lines"
    events,         \* the parsed items (arrays) or the non-blank lines
    week_dates,     \* dates: the window
    date_assignments,
    item_vars,      \* the template_vars of every item processed so far
    processed,      \* processed_events / output_lines
    output,         \* what the processing returned
    to_send,        \* the events / log_lines handed to the sender
    batch_size,
    pacing,         \* delay_between_batches / delay of the running sender
    send_i,         \* the sender's loop variable i
    successful,
    failed,
    errors,
    calls,          \* the payload of every sink call so far
    outcomes,       \* the sink's answer to every call so far
    sleeps,         \* the time.sleep calls so far
    result,         \* what the caller of the entry path gets
    \* ---- the subscribe handler of the extension (SpecSubscribe)
    sub_pc,         \* "webhook" | "rules" | "return" | "returned" | "SystemExit"
    auto_load,      \* conf.get("auto_load_on_subscribe", True)
    results,        \* the results dictionary
    rule_i,         \* the rules of DR_RULES the loop has been through
    attempts        \* the calls made so far: "webhook", a rule's name, "load"

distVars == <<dPc, dNum, dDates, dI, dOut, dIdx, dDivs>>
renderVars == <<rPc, rValue, rVars, rOut>>
inputVars == <<path, content, delay, sink, clock, midnights>>
procVars == <<template_content, mode, events, week_dates, date_assignments, item_vars,
              processed, output>>
sendVars == <<to_send, batch_size, pacing, send_i, successful, failed, errors, calls,
              outcomes, sleeps>>
pipeVars == <<inputVars, pc, procVars, sendVars, result>>
subVars == <<sub_pc, auto_load, results, rule_i, attempts>>
vars == <<distVars, renderVars, pipeVars, subVars>>

(***************************************************************************)
(* Bounds of the model.                                                    *)
(***************************************************************************)
MaxCount == 9       \* largest item count handed to distribute_dates alone
MaxWindow == 8      \* largest window handed to distribute_dates alone
MaxArrayLen == 2    \* longest array / widest object among the rendered values
MaxItems == 5       \* most items of a template array
MaxMidnights == 1   \* most date changes during one run
MaxBatch == 3       \* largest batch_size handed to a sender called on its own

(***************************************************************************)
(* Program constants.                                                      *)
(***************************************************************************)
WindowDays == 7     \* range(7) in get_past_week_dates
DefaultBatchSize == 10      \* send_to_webhook(batch_size=10)
DefaultLineDelay == 100     \* send_to_webhook(delay_between_batches=0.1), in ms
DefaultJsonDelay == 50      \* send_json_events_to_webhook(delay_between_batches=0.05)
ErrorsCap == 10             \* errors[:10] in playbook

(***************************************************************************)
(* Calendar: datetime.date arithmetic, strftime and strptime.              *)
(***************************************************************************)
\* strptime(s, "%Y-%m-%d").date(): the date object of the printed fields.
strptime(f) ==
    LET y   == IF f.m <= 2 THEN f.y - 1 ELSE f.y
        era == y \div 400
        yoe == y - era * 400
        mp  == IF f.m > 2 THEN f.m - 3 ELSE f.m + 9
        doy == (153 * mp + 2) \div 5 + f.d - 1
        doe == yoe * 365 + yoe \div 4 - yoe \div 100 + doy
    IN  era * 146097 + doe - 719468

\* The printed fields of a date object (what every strftime directive reads).
DateFields(day) ==
    LET z   == day + 719468
        era == z \div 146097
        doe == z - era * 146097
        yoe == (doe - doe \div 1460 + doe \div 36524 - doe \div 146096) \div 365
        doy == doe - (365 * yoe + yoe \div 4 - yoe \div 100)
        mp  == (5 * doy + 2) \div 153
        d   == doy - (153 * mp + 2) \div 5 + 1
        m   == IF mp < 10 THEN mp + 3 ELSE mp - 9
        y   == yoe + era * 400 + (IF m <= 2 THEN 1 ELSE 0)
    IN  [y |-> y, m |-> m, d |-> d]

Pad2(n) == IF n < 10 THEN "0" \o ToString(n) ELSE ToString(n)

MonthAbbr(m) ==
    <<"Jan", "Feb", "Mar", "Apr", "May", "Jun",
      "Jul", "Aug", "Sep", "Oct", "Nov", "Dec">>[m]

\* The text of a "%Y-%m-%d" string with printed fields f.
IsoText(f) == ToString(f.y) \o "-" \o Pad2(f.m) \o "-" \o Pad2(f.d)
UsText(f) == Pad2(f.m) \o "/" \o Pad2(f.d) \o "/" \o ToString(f.y)
EuText(f) == Pad2(f.d) \o "/" \o Pad2(f.m) \o "/" \o ToString(f.y)
ShortText(f) == ToString(f.y) \o Pad2(f.m) \o Pad2(f.d)

\* f"{month} {day:2d}"
format_syslog_date(date_obj) ==
    LET f == DateFields(date_obj)
    IN  MonthAbbr(f.m) \o " " \o
        (IF f.d < 10 THEN " " \o ToString(f.d) ELSE ToString(f.d))

\* The window starting yesterday.
PastWeekFromYesterday(today) ==
    [k \in 1..WindowDays |-> DateFields(today - k)]

\* The window listed oldest day first.
PastWeekAscending(today) ==
    [k \in 1..WindowDays |-> DateFields(today - (WindowDays - k))]

\* [(today - timedelta(days=i)).strftime("%Y-%m-%d") for i in range(7)]
get_past_week_dates(today) ==
    [k \in 1..WindowDays |-> DateFields(today - (k - 1))]

(***************************************************************************)
(* distribute_dates                                                        *)
(***************************************************************************)
\* The index taken for the next item, rounded up, and over a window one
\* entry short.
DateIdxOffByOne(i, n, num_lines) == ((i + 1) * n) \div num_lines
DateIdxCeil(i, n, num_lines) == (i * n + num_lines - 1) \div num_lines
DateIdxShortWindow(i, n, num_lines) == (i * (n - 1)) \div num_lines

\* date_idx = (i * len(dates)) // num_lines
DateIdx(i, n, num_lines) == (i * n) \div num_lines

distribute_dates(num_lines, dates) ==
    IF num_lines = 0
    THEN <<>>
    ELSE [j \in 1..num_lines |-> dates[DateIdx(j - 1, Len(dates), num_lines) + 1]]


(***************************************************************************)
(* JSON values: a value is a record of one shape,                           *)
(*   kind  "str" | "num" | "bool" | "null" | "list" | "dict"                *)
(*   s     the tokens of a string                                           *)
(*   n     a number (a boolean as 0 / 1)                                    *)
(*   keys  the keys of an object, in order                                  *)
(*   items the elements of an array / the values of an object, in order     *)
(***************************************************************************)
Str(toks) == [kind |-> "str", s |-> toks, n |-> 0, keys |-> <<>>, items |-> <<>>]
Num(n) == [kind |-> "num", s |-> <<>>, n |-> n, keys |-> <<>>, items |-> <<>>]
Bool(b) ==
    [kind |-> "bool", s |-> <<>>, n |-> IF b THEN 1 ELSE 0,
     keys |-> <<>>, items |-> <<>>]
Null == [kind |-> "null", s |-> <<>>, n |-> 0, keys |-> <<>>, items |-> <<>>]
List(items) == [kind |-> "list", s |-> <<>>, n |-> 0, keys |-> <<>>, items |-> items]
Dict(keys, items) ==
    [kind |-> "dict", s |-> <<>>, n |-> 0, keys |-> keys, items |-> items]

\* The text of a token sequence.
RECURSIVE Concat(_)
Concat(toks) == IF toks = <<>> THEN "" ELSE toks[1] \o Concat(Tail(toks))

\* '{{' in value, '}}' in value
HasOpen(toks) == \E p \in 1..Len(toks) : toks[p] = "{{"
HasClose(toks) == \E p \in 1..Len(toks) : toks[p] = "}}"

(***************************************************************************)
(* Jinja2: env.from_string(text).render(...) with the default Environment *)
(* (loader=BaseLoader()).  Outside an expression every token is          *)
(* data (a lone "}}" too); "{{" opens an expression that runs to the next  *)
(* "}}".  An expression is a single name; anything else, or an expression  *)
(* that is never closed, is a TemplateSyntaxError.  A name the bindings do *)
(* not hold evaluates to Undefined, which prints as the empty string       *)
(* (the default `undefined` of Environment).                               *)
(***************************************************************************)
Identifiers ==
    {"date", "date_us", "date_eu", "date_short", "syslog_date", "day_offset",
     "hostname", "user"}

\* str() of the value a name evaluates to.
JinjaLookup(template_vars, name) ==
    IF name \in DOMAIN template_vars
    THEN [ok |-> TRUE,
          text |-> IF name = "day_offset"
                   THEN ToString(template_vars[name])
                   ELSE template_vars[name]]
    ELSE [ok |-> TRUE, text |-> ""]

RECURSIVE JinjaScan(_, _, _, _, _)
JinjaScan(toks, pos, inExpr, expr, template_vars) ==
    IF pos > Len(toks)
    THEN [ok |-> ~inExpr, out |-> <<>>]
    ELSE LET t == toks[pos] IN
         IF ~inExpr
         THEN IF t = "{{"
              THEN JinjaScan(toks, pos + 1, TRUE, <<>>, template_vars)
              ELSE LET rest == JinjaScan(toks, pos + 1, FALSE, <<>>, template_vars)
                   IN  [ok |-> rest.ok, out |-> <<t>> \o rest.out]
         ELSE IF t = "}}"
              THEN IF Len(expr) = 1 /\ expr[1] \in Identifiers
                   THEN LET val  == JinjaLookup(template_vars, expr[1])
                            rest == JinjaScan(toks, pos + 1, FALSE, <<>>,
                                              template_vars)
                        IN  [ok |-> val.ok /\ rest.ok,
                             out |-> <<val.text>> \o rest.out]
                   ELSE [ok |-> FALSE, out |-> <<>>]
              ELSE IF t = " "
                   THEN JinjaScan(toks, pos + 1, TRUE, expr, template_vars)
                   ELSE JinjaScan(toks, pos + 1, TRUE, Append(expr, t),
                                  template_vars)

\* [ok |-> FALSE] is a raised exception; otherwise out is the rendered text.
JinjaRender(toks, template_vars) == JinjaScan(toks, 1, FALSE, <<>>, template_vars)

(***************************************************************************)
(* render_template_in_value                                                *)
(***************************************************************************)
\* Line mode: try: env.from_string(line).render(...) except: the line.
RenderLine(toks, template_vars) ==
    LET r == JinjaRender(toks, template_vars)
    IN  IF r.ok THEN r.out ELSE toks

\* The isinstance(value, str) branch.
RenderStr(toks, template_vars) ==
    IF HasOpen(toks) /\ HasClose(toks)
    THEN LET r == JinjaRender(toks, template_vars)
         IN  IF r.ok THEN r.out ELSE toks
    ELSE toks

\* The function without its final "else: return value".
RECURSIVE RenderNoElse(_, _)
RenderNoElse(value, template_vars) ==
    CASE value.kind = "str" ->
            Str(RenderStr(value.s, template_vars))
      [] value.kind = "dict" ->
            Dict(value.keys,
                 [p \in 1..Len(value.items) |->
                    RenderNoElse(value.items[p], template_vars)])
      [] value.kind = "list" ->
            List([p \in 1..Len(value.items) |->
                    RenderNoElse(value.items[p], template_vars)])
      [] OTHER -> Null

RECURSIVE render_template_in_value(_, _)
render_template_in_value(value, template_vars) ==
    CASE value.kind = "str" ->
            Str(RenderStr(value.s, template_vars))
      [] value.kind = "dict" ->
            Dict(value.keys,
                 [p \in 1..Len(value.items) |->
                    render_template_in_value(value.items[p], template_vars)])
      [] value.kind = "list" ->
            List([p \in 1..Len(value.items) |->
                    render_template_in_value(value.items[p], template_vars)])
      [] OTHER -> value

\* The bindings of one item (the template_vars dictionary).
TemplateVars(assigned_date, now) ==
    LET date_obj == strptime(assigned_date)
        days_ago == now - date_obj
        f        == DateFields(date_obj)
    IN  [date        |-> IsoText(assigned_date),
         date_us     |-> UsText(f),
         date_eu     |-> EuText(f),
         date_short  |-> ShortText(f),
         syslog_date |-> format_syslog_date(date_obj),
         day_offset  |-> days_ago]


(***************************************************************************)
(* Inputs.                                                                 *)
(***************************************************************************)
Date(y, m, d) == strptime([y |-> y, m |-> m, d |-> d])

\* The dates the clock is read at: a window inside one month, one that
\* crosses a year's end, one that crosses a leap day.
Todays == {Date(2025, 1, 10), Date(2025, 1, 3), Date(2024, 3, 2)}

\* String leaves.
PlainLeaf == <<"plain text">>
OnlyOpenLeaf == <<"brace ", "{{", " left open">>
OnlyCloseLeaf == <<"closed ", "}}">>
DayLeaf == <<"day ", "{{", "date", "}}", " offset ", "{{", "day_offset", "}}">>
SyslogLeaf == <<"{{", " ", "syslog_date", " ", "}}", " host sshd">>
UnknownLeaf == <<"login by ", "{{", "user", "}}", " ok">>
MixedLeaf == <<"{{", "date_us", "}}", " on ", "{{", "hostname", "}}">>
EmptyExprLeaf == <<"bad ", "{{", "}}", " expr">>
TwoNamesLeaf == <<"{{", "date", " ", "date_eu", "}}">>
UnclosedLeaf == <<"}}", " then ", "{{", "date_short">>

StrLeaves ==
    {PlainLeaf, OnlyOpenLeaf, OnlyCloseLeaf, DayLeaf, SyslogLeaf, UnknownLeaf,
     MixedLeaf, EmptyExprLeaf, TwoNamesLeaf, UnclosedLeaf}

Leaves == {Str(t) : t \in StrLeaves} \cup {Num(7), Bool(TRUE), Bool(FALSE), Null}

\* The leaves the containers are built of.
ElemLeaves ==
    {Str(PlainLeaf), Str(OnlyOpenLeaf), Str(DayLeaf), Str(UnknownLeaf),
     Str(EmptyExprLeaf), Num(7), Null}

KeyNames == <<"msg", "host", "n", "extra">>

SeqsUpTo(S, n) == UNION {[1..k -> S] : k \in 0..n}

FlatLists == {List(q) : q \in SeqsUpTo(ElemLeaves, MaxArrayLen)}
FlatDicts == {Dict(SubSeq(KeyNames, 1, Len(q)), q) : q \in SeqsUpTo(ElemLeaves, MaxArrayLen)}
Nested ==
    UNION {{List(<<c>>), Dict(<<"inner">>, <<c>>), List(<<Str(DayLeaf), c, Null>>)} :
             c \in FlatLists \cup FlatDicts}

Values == Leaves \cup FlatLists \cup FlatDicts \cup Nested

\* Binding maps: those of the window entries, an empty one, a foreign one.
NoVars == [x \in {} |-> ""]
BindingMaps ==
    {TemplateVars(get_past_week_dates(Date(2025, 1, 10))[k], Date(2025, 1, 10)) :
        k \in 1..WindowDays}
    \cup {NoVars, [hostname |-> "web01"]}

\* A window of w days ending today.
DatesOfLen(today, w) == [k \in 1..w |-> DateFields(today - (k - 1))]

(***************************************************************************)
(* distribute_dates, step by step.                                         *)
(***************************************************************************)
InitDist ==
    /\ dPc = "call"
    /\ dNum \in 0..MaxCount
    /\ dDates \in {DatesOfLen(t, w) : t \in Todays, w \in 1..MaxWindow}
    /\ dI = 0
    /\ dOut = <<>>
    /\ dIdx = <<>>
    /\ dDivs = 0

IdleDist ==
    /\ dPc = "idle"
    /\ dNum = 0
    /\ dDates = <<>>
    /\ dI = 0
    /\ dOut = <<>>
    /\ dIdx = <<>>
    /\ dDivs = 0

\* if num_lines == 0: return []
DistReturnEmpty ==
    /\ dPc = "call"
    /\ dNum = 0
    /\ dPc' = "ret"
    /\ dOut' = <<>>
    /\ UNCHANGED <<dNum, dDates, dI, dIdx, dDivs>>
    /\ UNCHANGED <<renderVars, pipeVars, subVars>>

\* date_assignments = []; for i in range(num_lines):
DistEnter ==
    /\ dPc = "call"
    /\ dNum # 0
    /\ dPc' = "loop"
    /\ dI' = 0
    /\ dOut' = <<>>
    /\ UNCHANGED <<dNum, dDates, dIdx, dDivs>>
    /\ UNCHANGED <<renderVars, pipeVars, subVars>>

\* One iteration: the division, then dates[date_idx] (an IndexError when
\* date_idx is no index of dates).
DistLoop ==
    /\ dPc = "loop"
    /\ dI < dNum
    /\ LET date_idx == DateIdx(dI, Len(dDates), dNum) IN
         /\ dDivs' = dDivs + 1
         /\ dIdx' = Append(dIdx, date_idx)
         /\ IF date_idx \in 0..(Len(dDates) - 1)
            THEN /\ dOut' = Append(dOut, dDates[date_idx + 1])
                 /\ dI' = dI + 1
                 /\ dPc' = "loop"
            ELSE /\ dPc' = "raised"
                 /\ UNCHANGED <<dOut, dI>>
    /\ UNCHANGED <<dNum, dDates>>
    /\ UNCHANGED <<renderVars, pipeVars, subVars>>

\* return date_assignments
DistReturn ==
    /\ dPc = "loop"
    /\ dI = dNum
    /\ dPc' = "ret"
    /\ UNCHANGED <<dNum, dDates, dI, dOut, dIdx, dDivs>>
    /\ UNCHANGED <<renderVars, pipeVars, subVars>>

NextDist ==
    \/ DistReturnEmpty
    \/ DistEnter
    \/ DistLoop
    \/ DistReturn

(***************************************************************************)
(* render_template_in_value, applied to one value.                         *)
(***************************************************************************)
InitRender ==
    /\ rPc = "call"
    /\ rValue \in Values
    /\ rVars \in BindingMaps
    /\ rOut = Null

IdleRender ==
    /\ rPc = "idle"
    /\ rValue = Null
    /\ rVars = NoVars
    /\ rOut = Null

RenderCall ==
    /\ rPc = "call"
    /\ rOut' = render_template_in_value(rValue, rVars)
    /\ rPc' = "ret"
    /\ UNCHANGED <<rValue, rVars>>
    /\ UNCHANGED <<distVars, pipeVars, subVars>>

NextRender ==
    \/ RenderCall


(***************************************************************************)
(* Text: strip, split('\n'), '\n'.join, and JSON text.                     *)
(***************************************************************************)
WhitespaceTokens == {"", " ", "\n"}

RECURSIVE LStrip(_)
LStrip(toks) ==
    IF toks # <<>> /\ toks[1] \in WhitespaceTokens THEN LStrip(Tail(toks)) ELSE toks

RECURSIVE RStrip(_)
RStrip(toks) ==
    IF toks # <<>> /\ toks[Len(toks)] \in WhitespaceTokens
    THEN RStrip(SubSeq(toks, 1, Len(toks) - 1))
    ELSE toks

\* text.strip()
Strip(toks) == RStrip(LStrip(toks))

\* text.split('\n'): one more piece than there are line breaks.
RECURSIVE SplitLines(_)
SplitLines(toks) ==
    IF \A p \in 1..Len(toks) : toks[p] # "\n"
    THEN <<toks>>
    ELSE LET p == CHOOSE q \in 1..Len(toks) :
                     toks[q] = "\n" /\ \A r \in 1..(q - 1) : toks[r] # "\n"
         IN  <<SubSeq(toks, 1, p - 1)>> \o SplitLines(SubSeq(toks, p + 1, Len(toks)))

\* '\n'.join(lines)
RECURSIVE JoinLines(_)
JoinLines(lines) ==
    IF lines = <<>> THEN <<>>
    ELSE IF Len(lines) = 1 THEN lines[1]
    ELSE lines[1] \o <<"\n">> \o JoinLines(Tail(lines))

\* [x for x in xs if keep(x)], for the two filters of the code.
RECURSIVE NonBlank(_)
NonBlank(lines) ==
    IF lines = <<>> THEN <<>>
    ELSE IF Strip(lines[1]) # <<>> /\ Concat(Strip(lines[1])) # ""
         THEN <<lines[1]>> \o NonBlank(Tail(lines))
         ELSE NonBlank(Tail(lines))

\* The text of a JSON value, as the template file holds it and as
\* json.dumps writes it.
RECURSIVE JsonText(_)
RECURSIVE JsonItems(_, _, _)
JsonItems(keys, items, p) ==
    IF p > Len(items) THEN <<>>
    ELSE (IF p > 1 THEN <<", ">> ELSE <<>>)
         \o (IF keys # <<>> THEN <<"\"", keys[p], "\"", ": ">> ELSE <<>>)
         \o JsonText(items[p])
         \o JsonItems(keys, items, p + 1)
JsonText(v) ==
    CASE v.kind = "str"  -> <<"\"">> \o v.s \o <<"\"">>
      [] v.kind = "num"  -> <<ToString(v.n)>>
      [] v.kind = "bool" -> <<IF v.n = 1 THEN "true" ELSE "false">>
      [] v.kind = "null" -> <<"null">>
      [] v.kind = "list" -> <<"[">> \o JsonItems(<<>>, v.items, 1) \o <<"]">>
      [] v.kind = "dict" -> <<"{">> \o JsonItems(v.keys, v.items, 1) \o <<"}">>

(***************************************************************************)
(* Templates.                                                              *)
(***************************************************************************)
DayEvent == Dict(<<"msg">>, <<Str(DayLeaf)>>)
SyslogEvent == Dict(<<"ts", "pid">>, <<Str(SyslogLeaf), Num(7)>>)
NestedEvent ==
    Dict(<<"event", "tags">>,
         <<Dict(<<"who", "ok">>, <<Str(UnknownLeaf), Bool(TRUE)>>),
           List(<<Str(PlainLeaf), Str(EmptyExprLeaf), Null>>)>>)

\* An array of n events.
DayEvents(n) == List([j \in 1..n |-> DayEvent])
MixedEvents == List(<<SyslogEvent, NestedEvent>>)

\* The JSON values the template texts spell.
JsonUniverse ==
    {DayEvents(n) : n \in 0..MaxItems} \cup {MixedEvents, DayEvent}
    \cup {DayEvents(ErrorsCap + 2)}

ArrayTemplates ==
    {JsonText(DayEvents(n)) \o <<"\n">> : n \in 0..MaxItems}
    \cup {<<" ", "\n">> \o JsonText(MixedEvents) \o <<"\n">>}
ObjectTemplate == JsonText(DayEvent) \o <<"\n">>
NotValidBrace == <<"{", "not valid">>
NotValidBracket == <<"[", "not valid">>
LogLines ==
    <<"{{", "syslog_date", "}}", " host sshd", "\n",
      " ", "\n",
      "plain text", "\n",
      "{{", "user", "}}", "\n",
      "bad ", "{{", "}}", " expr", "\n">>
EmptyText == <<"\n">>

RECURSIVE RepeatText(_, _)
RepeatText(toks, n) == IF n = 0 THEN <<>> ELSE toks \o RepeatText(toks, n - 1)

\* An array with more items than the errors list keeps, and a log with more
\* lines than one batch takes.
LongArray == JsonText(DayEvents(ErrorsCap + 2)) \o <<"\n">>
LongLogLines == RepeatText(<<"{{", "date", "}}", " sshd ok", "\n">>, DefaultBatchSize + 1)
LongTemplates == {LongArray, LongLogLines}

Templates ==
    ArrayTemplates
    \cup {ObjectTemplate, NotValidBrace, NotValidBracket, LogLines, EmptyText}

\* json.loads(text): [ok |-> FALSE] is a JSONDecodeError.
JsonLoads(toks) ==
    LET hits == {v \in JsonUniverse : JsonText(v) = toks}
    IN  IF hits = {}
        THEN [ok |-> FALSE, value |-> Null]
        ELSE [ok |-> TRUE, value |-> CHOOSE v \in hits : TRUE]

\* The test without the parse.
IsJsonArrayNoParse(text) ==
    LET stripped == Strip(text)
    IN  stripped # <<>> /\ stripped[1] = "["

is_json_array(text) ==
    LET stripped == Strip(text)
    IN  IF ~(stripped # <<>> /\ stripped[1] = "[")
        THEN FALSE
        ELSE JsonLoads(stripped).ok

(***************************************************************************)
(* The sink: what one urlopen(request, timeout=30) call comes to.          *)
(*   "response"   the call returns a response with a status                *)
(*   "HTTPError"  urllib raises HTTPError(code)                            *)
(*   "URLError"   urllib raises URLError (connection failure)              *)
(*   "timeout"    any other exception (socket.timeout)                     *)
(***************************************************************************)
Response(status) == [kind |-> "response", status |-> status]
HTTPErr(code) == [kind |-> "HTTPError", status |-> code]
URLErr == [kind |-> "URLError", status |-> 0]
Timeout == [kind |-> "timeout", status |-> 0]

\* A run's endpoint answers around the 2xx boundaries, or fails in every way.
BoundarySink == {Response(199), Response(200), Response(299), Response(300)}
FailingSink == {Response(200), Response(500), HTTPErr(500), URLErr, Timeout}
Sinks == {BoundarySink, FailingSink}
\* An endpoint that is down: every call fails the same way.
DownSink == {URLErr}

\* str(e) of the exception of an outcome.
ExceptionText(o) ==
    CASE o.kind = "HTTPError" ->
            "HTTP Error " \o ToString(o.status) \o ": Internal Server Error"
      [] o.kind = "URLError" -> "<urlopen error [Errno 111] Connection refused>"
      [] OTHER -> "timed out"

\* The test with its upper bound included.
IsSuccessInclusive(status) == 200 <= status /\ status <= 300

\* if 200 <= status < 300
IsSuccess(status) == 200 <= status /\ status < 300

\* Whether a call with this outcome counts as sent: the status test inside
\* the with block, every except branch a failure.
Delivered(o) == o.kind = "response" /\ IsSuccess(o.status)

(***************************************************************************)
(* Results handed to the caller of an entry path.                          *)
(*   kind "data"        a result object ({"data": ...} / jsonify(result))  *)
(*        "error"       an error object ({"error": ...})                   *)
(*        "SystemExit"  sys.exit(1) left the handler uncaught              *)
(*        "exit"        the command-line program ended (http: exit code)   *)
(***************************************************************************)
NoResult ==
    [kind |-> "none", http |-> 0, status |-> "", events_total |-> 0,
     events_sent |-> 0, events_failed |-> 0, has_errors |-> FALSE,
     errors |-> <<>>, has_truncated |-> FALSE, errors_truncated |-> 0,
     error |-> ""]

ErrorResult(http, msg) == [NoResult EXCEPT !.kind = "error", !.http = http, !.error = msg]
SystemExit == [NoResult EXCEPT !.kind = "SystemExit", !.http = 1]
ProgramExit(code) == [NoResult EXCEPT !.kind = "exit", !.http = code]

\* The result dictionary of main.py, extension.py and the playbook.
\* The result with a third status for a run in which nothing was sent.
DataResultFailure(total, sent, nfailed) ==
    [NoResult EXCEPT !.kind = "data",
                     !.status = IF nfailed = 0 THEN "success"
                                ELSE IF sent = 0 THEN "failure" ELSE "partial",
                     !.events_total = total,
                     !.events_sent = sent,
                     !.events_failed = nfailed]

\* 'status': 'success' if failed == 0 else 'partial', and the counts.
DataResult(total, sent, nfailed) ==
    [NoResult EXCEPT !.kind = "data",
                     !.status = IF nfailed = 0 THEN "success" ELSE "partial",
                     !.events_total = total,
                     !.events_sent = sent,
                     !.events_failed = nfailed]

Min(a, b) == IF a < b THEN a ELSE b

(***************************************************************************)
(* Inputs of a run.                                                        *)
(***************************************************************************)
Paths == {"load", "ext", "cli", "playbook"}
RequestDelays == {0, 20}
DelaysOf(p) == IF p \in {"load", "playbook"} THEN RequestDelays ELSE {DefaultJsonDelay}
RunDates == {Date(2025, 1, 10), Date(2025, 1, 3)}

\* The runs: every template against every endpoint on 2025-01-10, a day
\* that does not end during the run, and every template, the long ones
\* included, against the endpoint that is down, on each of the days, which
\* may end during the run.
InitPipe ==
    /\ path \in Paths
    /\ delay \in DelaysOf(path)
    /\ \/ /\ content \in Templates
          /\ sink \in Sinks
          /\ clock = Date(2025, 1, 10)
          /\ midnights = 0
       \/ /\ content \in Templates \cup LongTemplates
          /\ sink = DownSink
          /\ clock \in RunDates
          /\ midnights \in 0..MaxMidnights
    /\ pc = "start"
    /\ template_content = <<>>
    /\ mode = "none"
    /\ events = <<>>
    /\ week_dates = <<>>
    /\ date_assignments = <<>>
    /\ item_vars = <<>>
    /\ processed = <<>>
    /\ output = Null
    /\ to_send = <<>>
    /\ batch_size = 0
    /\ pacing = 0
    /\ send_i = 0
    /\ successful = 0
    /\ failed = 0
    /\ errors = <<>>
    /\ calls = <<>>
    /\ outcomes = <<>>
    /\ sleeps = <<>>
    /\ result = NoResult

IdlePipe ==
    /\ path = "none"
    /\ content = <<>>
    /\ delay = 0
    /\ sink = {}
    /\ clock = 0
    /\ midnights = 0
    /\ pc = "idle"
    /\ template_content = <<>>
    /\ mode = "none"
    /\ events = <<>>
    /\ week_dates = <<>>
    /\ date_assignments = <<>>
    /\ item_vars = <<>>
    /\ processed = <<>>
    /\ output = Null
    /\ to_send = <<>>
    /\ batch_size = 0
    /\ pacing = 0
    /\ send_i = 0
    /\ successful = 0
    /\ failed = 0
    /\ errors = <<>>
    /\ calls = <<>>
    /\ outcomes = <<>>
    /\ sleeps = <<>>
    /\ result = NoResult

(***************************************************************************)
(* The clock: datetime.now() is read once for the window and once more for *)
(* every item; the date may change in between.                             *)
(***************************************************************************)
DateChanges ==
    /\ pc \in {"start", "fetched", "render"}
    /\ midnights > 0
    /\ clock' = clock + 1
    /\ midnights' = midnights - 1
    /\ UNCHANGED <<path, content, delay, sink, pc, procVars, sendVars, result>>
    /\ UNCHANGED <<distVars, renderVars, subVars>>

(***************************************************************************)
(* Fetching the template.                                                  *)
(***************************************************************************)
\* fetch_template returns the text.
FetchOk ==
    /\ pc = "start"
    /\ template_content' = content
    /\ pc' = "fetched"
    /\ UNCHANGED <<inputVars, mode, events, week_dates, date_assignments,
                   item_vars, processed, output, sendVars, result>>
    /\ UNCHANGED <<distVars, renderVars, subVars>>

\* The source cannot be read.  log_template_processor.fetch_template ends in
\* sys.exit(1), which no "except Exception" of a caller catches; the
\* playbook's fetch_template raises into the playbook's except clauses.
FetchFail ==
    /\ pc = "start"
    /\ pc' = "done"
    /\ result' = CASE path = "playbook" -> ErrorResult(0, "Failed to fetch template")
                   [] path = "cli" -> ProgramExit(1)
                   [] OTHER -> SystemExit
    /\ UNCHANGED <<inputVars, procVars, sendVars>>
    /\ UNCHANGED <<distVars, renderVars, subVars>>

(***************************************************************************)
(* Processing the template.                                                *)
(***************************************************************************)
\* The non-blank lines of line mode.
TemplateLines(text) ==
    LET lines == NonBlank(SplitLines(Strip(text)))
    IN  [p \in 1..Len(lines) |-> Str(lines[p])]

\* What the first part of the processing comes to, up to the render loop:
\*   fatal "" and the mode and items, or the fatal error that ended it
\*   ("decode": json.JSONDecodeError, "value": ValueError, "exit": sys.exit).
\* process_json_template of the playbook:
PlaybookParse(text) ==
    LET parsed == JsonLoads(Strip(text))
    IN  IF ~parsed.ok
        THEN [fatal |-> "decode", mode |-> "none", items |-> <<>>]
        ELSE IF parsed.value.kind # "list"
        THEN [fatal |-> "value", mode |-> "none", items |-> <<>>]
        ELSE [fatal |-> "", mode |-> "json", items |-> parsed.value.items]

\* process_json_template of log_template_processor:
ProcessorParse(text) ==
    LET parsed == JsonLoads(Strip(text))
    IN  IF ~parsed.ok
        THEN [fatal |-> "exit", mode |-> "none", items |-> <<>>]
        ELSE IF parsed.value.kind # "list"
        THEN [fatal |-> "exit", mode |-> "none", items |-> <<>>]
        ELSE [fatal |-> "", mode |-> "json", items |-> parsed.value.items]

\* process_template: the array test, then one of the two modes.
ProcessTemplateParse(text) ==
    IF is_json_array(text)
    THEN ProcessorParse(text)
    ELSE [fatal |-> "", mode |-> "lines", items |-> TemplateLines(text)]

ParseOf(p, text) ==
    IF p = "playbook" THEN PlaybookParse(text) ELSE ProcessTemplateParse(text)

\* What a fatal error of the processing comes to for the caller.
FatalResult(p, fatal) ==
    CASE p = "playbook" /\ fatal = "decode" ->
            ErrorResult(0, "Invalid JSON in template")
      [] p = "playbook" -> ErrorResult(0, "Playbook execution failed")
      [] p = "cli" -> ProgramExit(1)
      [] OTHER -> SystemExit

\* The statements before the loop over the items.
ProcessBegin ==
    /\ pc = "fetched"
    /\ LET parse == ParseOf(path, template_content) IN
         IF parse.fatal # ""
         THEN /\ pc' = "done"
              /\ result' = FatalResult(path, parse.fatal)
              /\ UNCHANGED <<mode, events, week_dates, date_assignments>>
         ELSE /\ pc' = "render"
              /\ mode' = parse.mode
              /\ events' = parse.items
              /\ week_dates' = get_past_week_dates(clock)
              /\ date_assignments' =
                    distribute_dates(Len(parse.items), get_past_week_dates(clock))
              /\ UNCHANGED result
    /\ UNCHANGED <<inputVars, template_content, item_vars, processed, output,
                   sendVars>>
    /\ UNCHANGED <<distVars, renderVars, subVars>>

\* One iteration of "for event, assigned_date in zip(events, date_assignments)".
RenderItem ==
    /\ pc = "render"
    /\ Len(processed) < Len(events)
    /\ LET k == Len(processed) + 1
           template_vars == TemplateVars(date_assignments[k], clock)
       IN  /\ item_vars' = Append(item_vars, template_vars)
           /\ processed' =
                Append(processed,
                       IF mode = "json"
                       THEN render_template_in_value(events[k], template_vars)
                       ELSE Str(RenderLine(events[k].s, template_vars)))
    /\ UNCHANGED <<inputVars, pc, template_content, mode, events, week_dates,
                   date_assignments, output, sendVars, result>>
    /\ UNCHANGED <<distVars, renderVars, subVars>>

\* return processed_events / return '\n'.join(output_lines)
ProcessOutput ==
    IF mode = "json"
    THEN List(processed)
    ELSE Str(JoinLines([p \in 1..Len(processed) |-> processed[p].s]))

\* log_lines = [line for line in output_content.split('\n') if line.strip()]
LogLinesOf(out) ==
    LET lines == NonBlank(SplitLines(out.s))
    IN  [p \in 1..Len(lines) |-> Str(lines[p])]

(***************************************************************************)
(* From the processing to the delivery, per entry path.                    *)
(***************************************************************************)
RenderDone == pc = "render" /\ Len(processed) = Len(events)

StartSender(sender, items, size, wait) ==
    /\ pc' = sender
    /\ to_send' = items
    /\ batch_size' = size
    /\ pacing' = wait
    /\ send_i' = 0
    /\ successful' = 0
    /\ failed' = 0
    /\ errors' = <<>>
    /\ UNCHANGED <<calls, outcomes, sleeps>>

\* main.py, load_demo_data: lines 72-85.
LoadDeliver ==
    /\ path = "load"
    /\ RenderDone
    /\ output' = ProcessOutput
    /\ IF ProcessOutput.kind = "list"
       THEN StartSender("send_json", ProcessOutput.items, 1, delay)
       ELSE StartSender("send_lines", LogLinesOf(ProcessOutput),
                        DefaultBatchSize, DefaultLineDelay)
    /\ UNCHANGED <<inputVars, template_content, mode, events, week_dates,
                   date_assignments, item_vars, processed, result>>
    /\ UNCHANGED <<distVars, renderVars, subVars>>

\* log_template_processor.py, main: lines 415-428 (the destination a URL).
CliDeliver ==
    /\ path = "cli"
    /\ RenderDone
    /\ output' = ProcessOutput
    /\ IF ProcessOutput.kind = "list"
       THEN StartSender("send_json", ProcessOutput.items, 1, DefaultJsonDelay)
       ELSE StartSender("send_lines", LogLinesOf(ProcessOutput),
                        DefaultBatchSize, DefaultLineDelay)
    /\ UNCHANGED <<inputVars, template_content, mode, events, week_dates,
                   date_assignments, item_vars, processed, result>>
    /\ UNCHANGED <<distVars, renderVars, subVars>>

\* extension.py, _do_load_demo_data: lines 374-380; the ValueError is caught
\* by _load_demo_data.
ExtDeliver ==
    /\ path = "ext"
    /\ RenderDone
    /\ output' = ProcessOutput
    /\ IF ProcessOutput.kind # "list"
       THEN /\ pc' = "done"
            /\ result' = ErrorResult(0, "Failed to load demo data")
            /\ UNCHANGED sendVars
       ELSE /\ StartSender("send_json", ProcessOutput.items, 1, DefaultJsonDelay)
            /\ UNCHANGED result
    /\ UNCHANGED <<inputVars, template_content, mode, events, week_dates,
                   date_assignments, item_vars, processed>>
    /\ UNCHANGED <<distVars, renderVars, subVars>>

\* demo_data_loader_playbook.py, playbook: lines 211-214.
PlaybookDeliver ==
    /\ path = "playbook"
    /\ RenderDone
    /\ output' = ProcessOutput
    /\ StartSender("send_events", ProcessOutput.items, 1, delay)
    /\ UNCHANGED <<inputVars, template_content, mode, events, week_dates,
                   date_assignments, item_vars, processed, result>>
    /\ UNCHANGED <<distVars, renderVars, subVars>>

(***************************************************************************)
(* The senders: one action is one iteration of the loop, the sink call,    *)
(* its classification and the sleep that follows.                          *)
(***************************************************************************)
Slept(wait) == IF wait > 0 THEN Append(sleeps, wait) ELSE sleeps

\* The loop sending an event again until the sink accepts it.
SendJsonEventRetry ==
    /\ pc = "send_json"
    /\ send_i < Len(to_send)
    /\ \E o \in sink :
         /\ calls' = Append(calls, to_send[send_i + 1])
         /\ outcomes' = Append(outcomes, o)
         /\ IF Delivered(o)
            THEN /\ successful' = successful + 1
                 /\ send_i' = send_i + 1
                 /\ UNCHANGED failed
            ELSE /\ failed' = failed + 1
                 /\ UNCHANGED <<successful, send_i>>
    /\ sleeps' = Slept(pacing)
    /\ UNCHANGED <<inputVars, pc, procVars, to_send, batch_size, pacing, errors,
                   result>>
    /\ UNCHANGED <<distVars, renderVars, subVars>>

\* The loop taking batch_size events for one request.
SendJsonEventBatched ==
    /\ pc = "send_json"
    /\ send_i < Len(to_send)
    /\ LET batch == SubSeq(to_send, send_i + 1,
                           Min(send_i + batch_size, Len(to_send)))
       IN  \E o \in sink :
             /\ calls' = Append(calls, IF batch_size = 1 THEN batch[1] ELSE List(batch))
             /\ outcomes' = Append(outcomes, o)
             /\ IF Delivered(o)
                THEN successful' = successful + Len(batch) /\ UNCHANGED failed
                ELSE failed' = failed + Len(batch) /\ UNCHANGED successful
    /\ sleeps' = Slept(pacing)
    /\ send_i' = send_i + batch_size
    /\ UNCHANGED <<inputVars, pc, procVars, to_send, batch_size, pacing, errors,
                   result>>
    /\ UNCHANGED <<distVars, renderVars, subVars>>

\* The loop with only HTTPError and URLError caught: any other exception
\* leaves send_json_events_to_webhook.
SendJsonEventUncaught ==
    /\ pc = "send_json"
    /\ send_i < Len(to_send)
    /\ \E o \in sink :
         /\ calls' = Append(calls, to_send[send_i + 1])
         /\ outcomes' = Append(outcomes, o)
         /\ IF o.kind = "timeout"
            THEN /\ pc' = "done"
                 /\ result' = [NoResult EXCEPT !.kind = "exception"]
                 /\ UNCHANGED <<successful, failed, sleeps, send_i>>
            ELSE /\ IF Delivered(o)
                    THEN successful' = successful + 1 /\ UNCHANGED failed
                    ELSE failed' = failed + 1 /\ UNCHANGED successful
                 /\ sleeps' = Slept(pacing)
                 /\ send_i' = send_i + 1
                 /\ UNCHANGED <<pc, result>>
    /\ UNCHANGED <<inputVars, procVars, to_send, batch_size, pacing, errors>>
    /\ UNCHANGED <<distVars, renderVars, subVars>>

\* send_json_events_to_webhook
SendJsonEvent ==
    /\ pc = "send_json"
    /\ send_i < Len(to_send)
    /\ \E o \in sink :
         /\ calls' = Append(calls, to_send[send_i + 1])
         /\ outcomes' = Append(outcomes, o)
         /\ IF Delivered(o)
            THEN successful' = successful + 1 /\ UNCHANGED failed
            ELSE failed' = failed + 1 /\ UNCHANGED successful
    /\ sleeps' = Slept(pacing)
    /\ send_i' = send_i + 1
    /\ UNCHANGED <<inputVars, pc, procVars, to_send, batch_size, pacing, errors,
                   result>>
    /\ UNCHANGED <<distVars, renderVars, subVars>>

\* The entry numbered with i instead of i+1.
EventErrorZeroBased(n, o) ==
    IF o.kind = "response"
    THEN "Event " \o ToString(n - 1) \o ": HTTP " \o ToString(o.status)
    ELSE "Event " \o ToString(n - 1) \o ": " \o ExceptionText(o)

\* f"Event {i+1}: HTTP {response.getcode()}" / f"Event {i+1}: {str(e)}"
EventError(n, o) ==
    IF o.kind = "response"
    THEN "Event " \o ToString(n) \o ": HTTP " \o ToString(o.status)
    ELSE "Event " \o ToString(n) \o ": " \o ExceptionText(o)

\* send_events_to_webhook of the playbook
SendEvent ==
    /\ pc = "send_events"
    /\ send_i < Len(to_send)
    /\ \E o \in sink :
         /\ calls' = Append(calls, to_send[send_i + 1])
         /\ outcomes' = Append(outcomes, o)
         /\ IF Delivered(o)
            THEN /\ successful' = successful + 1
                 /\ UNCHANGED <<failed, errors>>
            ELSE /\ failed' = failed + 1
                 /\ errors' = Append(errors, EventError(send_i + 1, o))
                 /\ UNCHANGED successful
    /\ sleeps' = Slept(pacing)
    /\ send_i' = send_i + 1
    /\ UNCHANGED <<inputVars, pc, procVars, to_send, batch_size, pacing, result>>
    /\ UNCHANGED <<distVars, renderVars, subVars>>

\* {"events": [{"raw": line} for line in batch]}
BatchPayload(batch) ==
    Dict(<<"events">>,
         <<List([p \in 1..Len(batch) |-> Dict(<<"raw">>, <<batch[p]>>)])>>)

\* The loop counting one per request, whatever the batch holds.
SendBatchCountsCalls ==
    /\ pc = "send_lines"
    /\ send_i < Len(to_send)
    /\ LET batch == SubSeq(to_send, send_i + 1,
                           Min(send_i + batch_size, Len(to_send)))
       IN  \E o \in sink :
             /\ calls' = Append(calls, BatchPayload(batch))
             /\ outcomes' = Append(outcomes, o)
             /\ IF Delivered(o)
                THEN successful' = successful + 1 /\ UNCHANGED failed
                ELSE failed' = failed + 1 /\ UNCHANGED successful
    /\ sleeps' = IF send_i + batch_size < Len(to_send) THEN Slept(pacing) ELSE sleeps
    /\ send_i' = send_i + batch_size
    /\ UNCHANGED <<inputVars, pc, procVars, to_send, batch_size, pacing, errors,
                   result>>
    /\ UNCHANGED <<distVars, renderVars, subVars>>

\* The loop taking one line more than batch_size for every request.
SendBatchOverlapping ==
    /\ pc = "send_lines"
    /\ send_i < Len(to_send)
    /\ LET batch == SubSeq(to_send, send_i + 1,
                           Min(send_i + batch_size + 1, Len(to_send)))
       IN  \E o \in sink :
             /\ calls' = Append(calls, BatchPayload(batch))
             /\ outcomes' = Append(outcomes, o)
             /\ IF Delivered(o)
                THEN successful' = successful + Len(batch) /\ UNCHANGED failed
                ELSE failed' = failed + Len(batch) /\ UNCHANGED successful
    /\ sleeps' = IF send_i + batch_size < Len(to_send) THEN Slept(pacing) ELSE sleeps
    /\ send_i' = send_i + batch_size
    /\ UNCHANGED <<inputVars, pc, procVars, to_send, batch_size, pacing, errors,
                   result>>
    /\ UNCHANGED <<distVars, renderVars, subVars>>

\* send_to_webhook
SendBatch ==
    /\ pc = "send_lines"
    /\ send_i < Len(to_send)
    /\ LET batch == SubSeq(to_send, send_i + 1,
                           Min(send_i + batch_size, Len(to_send)))
       IN  \E o \in sink :
             /\ calls' = Append(calls, BatchPayload(batch))
             /\ outcomes' = Append(outcomes, o)
             /\ IF Delivered(o)
                THEN successful' = successful + Len(batch) /\ UNCHANGED failed
                ELSE failed' = failed + Len(batch) /\ UNCHANGED successful
    /\ sleeps' = IF send_i + batch_size < Len(to_send) THEN Slept(pacing) ELSE sleeps
    /\ send_i' = send_i + batch_size
    /\ UNCHANGED <<inputVars, pc, procVars, to_send, batch_size, pacing, errors,
                   result>>
    /\ UNCHANGED <<distVars, renderVars, subVars>>

(***************************************************************************)
(* The result, per entry path.                                             *)
(***************************************************************************)
SenderDone ==
    /\ pc \in {"send_json", "send_events", "send_lines"}
    /\ send_i >= Len(to_send)

\* main.py, load_demo_data: lines 87-98.
LoadReport ==
    /\ path = "load"
    /\ SenderDone
    /\ pc' = "done"
    /\ result' = [DataResult(Len(to_send), successful, failed)
                    EXCEPT !.http = IF failed > 0 THEN 207 ELSE 200]
    /\ UNCHANGED <<inputVars, procVars, sendVars>>
    /\ UNCHANGED <<distVars, renderVars, subVars>>

\* extension.py, _do_load_demo_data: lines 382-388, and _load_demo_data: 365.
ExtReport ==
    /\ path = "ext"
    /\ SenderDone
    /\ pc' = "done"
    /\ result' = DataResult(Len(events), successful, failed)
    /\ UNCHANGED <<inputVars, procVars, sendVars>>
    /\ UNCHANGED <<distVars, renderVars, subVars>>

\* log_template_processor.py, main: lines 429-430.
CliReport ==
    /\ path = "cli"
    /\ SenderDone
    /\ pc' = "done"
    /\ result' = ProgramExit(IF failed > 0 THEN 1 ELSE 0)
    /\ UNCHANGED <<inputVars, procVars, sendVars>>
    /\ UNCHANGED <<distVars, renderVars, subVars>>

\* demo_data_loader_playbook.py, playbook: lines 216-235.
PlaybookReport ==
    /\ path = "playbook"
    /\ SenderDone
    /\ pc' = "done"
    /\ result' =
         [DataResult(Len(to_send), successful, failed)
            EXCEPT !.has_errors = errors # <<>>,
                   !.errors = SubSeq(errors, 1, Min(ErrorsCap, Len(errors))),
                   !.has_truncated = Len(errors) > ErrorsCap,
                   !.errors_truncated =
                        IF Len(errors) > ErrorsCap THEN Len(errors) - ErrorsCap ELSE 0,
                   !.error = IF failed > 0 THEN "Partial failure" ELSE ""]
    /\ UNCHANGED <<inputVars, procVars, sendVars>>
    /\ UNCHANGED <<distVars, renderVars, subVars>>

Next ==
    \/ DateChanges
    \/ FetchOk
    \/ FetchFail
    \/ ProcessBegin
    \/ RenderItem
    \/ LoadDeliver
    \/ CliDeliver
    \/ ExtDeliver
    \/ PlaybookDeliver
    \/ SendJsonEvent
    \/ SendEvent
    \/ SendBatch
    \/ LoadReport
    \/ ExtReport
    \/ CliReport
    \/ PlaybookReport

(***************************************************************************)
(* Specifications.                                                         *)
(***************************************************************************)
(***************************************************************************)
(* The two per-event senders called on their own, with every value of      *)
(* their parameters (SpecSend).                                            *)
(***************************************************************************)
\* Events that differ from one another.
NumberedEvents(n) == [j \in 1..n |-> Dict(<<"n", "msg">>, <<Num(j), Str(PlainLeaf)>>)]

InitSend ==
    /\ path = "direct"
    /\ content = <<>>
    /\ delay = 0
    /\ sink \in Sinks
    /\ clock = 0
    /\ midnights = 0
    /\ pc \in {"send_json", "send_events"}
    /\ template_content = <<>>
    /\ mode = "json"
    /\ events = <<>>
    /\ week_dates = <<>>
    /\ date_assignments = <<>>
    /\ item_vars = <<>>
    /\ processed = <<>>
    /\ output = Null
    /\ to_send \in {NumberedEvents(n) : n \in 0..MaxItems}
    /\ batch_size \in IF pc = "send_json" THEN 1..MaxBatch ELSE {1}
    /\ pacing \in {0, DefaultJsonDelay}
    /\ send_i = 0
    /\ successful = 0
    /\ failed = 0
    /\ errors = <<>>
    /\ calls = <<>>
    /\ outcomes = <<>>
    /\ sleeps = <<>>
    /\ result = NoResult

\* return successful, failed / return successful, failed, errors
SenderReturn ==
    /\ path = "direct"
    /\ SenderDone
    /\ pc' = "done"
    /\ result' = [NoResult EXCEPT !.kind = "counts",
                                  !.events_sent = successful,
                                  !.events_failed = failed,
                                  !.errors = errors]
    /\ UNCHANGED <<inputVars, procVars, sendVars>>
    /\ UNCHANGED <<distVars, renderVars, subVars>>

NextSend ==
    \/ SendJsonEvent
    \/ SendEvent
    \/ SenderReturn

(***************************************************************************)
(* send_to_webhook called on its own, with every value of its parameters   *)
(* (SpecBatch).                                                            *)
(***************************************************************************)
\* Lines that differ from one another.
NumberedLines(n) == [j \in 1..n |-> Str(<<"line ", ToString(j)>>)]

InitBatch ==
    /\ path = "direct"
    /\ content = <<>>
    /\ delay = 0
    /\ sink \in Sinks
    /\ clock = 0
    /\ midnights = 0
    /\ pc = "send_lines"
    /\ template_content = <<>>
    /\ mode = "lines"
    /\ events = <<>>
    /\ week_dates = <<>>
    /\ date_assignments = <<>>
    /\ item_vars = <<>>
    /\ processed = <<>>
    /\ output = Null
    /\ to_send \in {NumberedLines(n) : n \in 0..MaxItems}
    /\ batch_size \in 1..MaxBatch
    /\ pacing \in {0, DefaultLineDelay}
    /\ send_i = 0
    /\ successful = 0
    /\ failed = 0
    /\ errors = <<>>
    /\ calls = <<>>
    /\ outcomes = <<>>
    /\ sleeps = <<>>
    /\ result = NoResult

NextBatch ==
    \/ SendBatch
    \/ SenderReturn

(***************************************************************************)
(* The subscribe handler of the extension, _on_subscribe (SpecSubscribe).  *)
(* One action is one call to a collaborator with what follows it up to the *)
(* next call.                                                              *)
(***************************************************************************)
\* rule["name"] for rule in DR_RULES
RuleNames ==
    <<"demo-encoded-powershell", "demo-recon-whoami", "demo-recon-net-user",
      "demo-certutil-download", "demo-mimikatz", "demo-registry-persistence",
      "demo-schtasks-persistence", "demo-failed-login", "demo-suspicious-dns",
      "demo-file-public-folder">>

\* What create_extension_adapter does: it returns, or raises an exception
\* with one of these messages.
AdapterOutcomes == {"ok", "Sensor Already Exists", "permission denied"}

\* "already exists" in str(e).lower()
SaysAlreadyExists(msg) == msg \in {"Sensor Already Exists", "already exists"}

\* What sdk.rules().set does: it returns, or raises with this message.
RuleOutcomes == {"ok", "rule quota reached"}

\* What the statements of step 3 come to:
\*   "hook domain"  getHookDomain raises
\*   "all sent"     _do_load_demo_data returns with events_failed = 0
\*   "some failed"  _do_load_demo_data returns with events_failed > 0
\*   "ValueError"   the template produced no list of events
\*   "SystemExit"   fetch_template could not read the template: sys.exit(1)
LoadOutcomes == {"hook domain", "all sent", "some failed", "ValueError", "SystemExit"}

InitSubscribe ==
    /\ sub_pc = "webhook"
    /\ auto_load \in BOOLEAN
    /\ results = [webhook_created |-> FALSE, rules_deployed |-> 0,
                  demo_data_loaded |-> FALSE, errors |-> <<>>]
    /\ rule_i = 0
    /\ attempts = <<>>

IdleSub ==
    /\ sub_pc = "idle"
    /\ auto_load = FALSE
    /\ results = [webhook_created |-> FALSE, rules_deployed |-> 0,
                  demo_data_loaded |-> FALSE, errors |-> <<>>]
    /\ rule_i = 0
    /\ attempts = <<>>

\* Step 1: create the webhook sensor.
CreateWebhook ==
    /\ sub_pc = "webhook"
    /\ \E o \in AdapterOutcomes :
         results' =
            IF o = "ok" \/ SaysAlreadyExists(o)
            THEN [results EXCEPT !.webhook_created = TRUE]
            ELSE [results EXCEPT !.errors = Append(@, "Webhook creation failed: " \o o)]
    /\ attempts' = Append(attempts, "webhook")
    /\ sub_pc' = "rules"
    /\ UNCHANGED <<auto_load, rule_i>>
    /\ UNCHANGED <<distVars, renderVars, pipeVars>>

\* Step 2: one iteration of "for rule in DR_RULES".
DeployRule ==
    /\ sub_pc = "rules"
    /\ rule_i < Len(RuleNames)
    /\ \E o \in RuleOutcomes :
         results' =
            IF o = "ok"
            THEN [results EXCEPT !.rules_deployed = @ + 1]
            ELSE [results EXCEPT !.errors =
                    Append(@, "Rule " \o RuleNames[rule_i + 1] \o " failed: " \o o)]
    /\ attempts' = Append(attempts, RuleNames[rule_i + 1])
    /\ rule_i' = rule_i + 1
    /\ UNCHANGED <<sub_pc, auto_load>>
    /\ UNCHANGED <<distVars, renderVars, pipeVars>>

\* Step 3: "if auto_load and results['webhook_created']" holds.
AutoLoad ==
    /\ sub_pc = "rules"
    /\ rule_i = Len(RuleNames)
    /\ auto_load /\ results.webhook_created
    /\ \E o \in LoadOutcomes :
         /\ results' =
              CASE o = "all sent" -> [results EXCEPT !.demo_data_loaded = TRUE]
                [] o = "some failed" ->
                     [results EXCEPT !.errors = Append(@, "Some events failed to load")]
                [] o \in {"hook domain", "ValueError"} ->
                     [results EXCEPT !.errors =
                         Append(@, "Demo data loading failed: " \o o)]
                [] OTHER -> results
         /\ sub_pc' = IF o = "SystemExit" THEN "SystemExit" ELSE "return"
    /\ attempts' = Append(attempts, "load")
    /\ UNCHANGED <<auto_load, rule_i>>
    /\ UNCHANGED <<distVars, renderVars, pipeVars>>

\* return {"data": results}, after step 3 or with step 3 skipped.
SubscribeReturn ==
    /\ \/ sub_pc = "return"
       \/ /\ sub_pc = "rules"
          /\ rule_i = Len(RuleNames)
          /\ ~(auto_load /\ results.webhook_created)
    /\ sub_pc' = "returned"
    /\ UNCHANGED <<auto_load, results, rule_i, attempts>>
    /\ UNCHANGED <<distVars, renderVars, pipeVars>>

NextSubscribe ==
    \/ CreateWebhook
    \/ DeployRule
    \/ AutoLoad
    \/ SubscribeReturn

Init == InitPipe /\ IdleDist /\ IdleRender /\ IdleSub
InitDistOnly == InitDist /\ IdleRender /\ IdlePipe /\ IdleSub
InitRenderOnly == InitRender /\ IdleDist /\ IdlePipe /\ IdleSub
InitSendOnly == InitSend /\ IdleDist /\ IdleRender /\ IdleSub
InitBatchOnly == InitBatch /\ IdleDist /\ IdleRender /\ IdleSub
InitSubscribeOnly == InitSubscribe /\ IdleDist /\ IdleRender /\ IdlePipe

Spec == Init /\ [][Next]_vars
SpecDist == InitDistOnly /\ [][NextDist]_vars
SpecRender == InitRenderOnly /\ [][NextRender]_vars
SpecSend == InitSendOnly /\ [][NextSend]_vars
SpecBatch == InitBatchOnly /\ [][NextBatch]_vars
SpecSubscribe == InitSubscribeOnly /\ [][NextSubscribe]_vars

(***************************************************************************)
(* Properties of distribute_dates (SpecDist).                              *)
(***************************************************************************)
\* C1: for every item count N > 0 and window size W > 0 the window indices
\* computed by distribute_dates are non-decreasing in the item index and each
\* lies in [0, W) (so no lookup in the window fails).
C1_IndicesInRangeNonDecreasing ==
    (dNum > 0 /\ Len(dDates) > 0) =>
        /\ dPc # "raised"
        /\ \A p \in 1..Len(dIdx) : dIdx[p] \in 0..(Len(dDates) - 1)
        /\ \A p, q \in 1..Len(dIdx) : p <= q => dIdx[p] <= dIdx[q]
        /\ dPc = "ret" => Len(dIdx) = dNum

C1_Witness ==
    /\ dPc = "ret"
    /\ dNum = 5
    /\ Len(dDates) = WindowDays
    /\ dIdx = <<0, 1, 2, 4, 5>>

\* C2: for every item count N >= W, W = 7, every window index in [0, W) is
\* assigned to at least one item.
C2_EveryIndexAssigned ==
    (dPc = "ret" /\ Len(dDates) = WindowDays /\ dNum >= WindowDays) =>
        /\ \A k \in 0..(WindowDays - 1) : \E p \in 1..Len(dIdx) : dIdx[p] = k
        /\ \A k \in 1..WindowDays : \E p \in 1..Len(dOut) : dOut[p] = dDates[k]

C2_Witness ==
    /\ dPc = "ret"
    /\ Len(dDates) = WindowDays
    /\ dNum = WindowDays + 2
    /\ dIdx = <<0, 0, 1, 2, 3, 3, 4, 5, 6>>

\* C3: distribute_dates(count, window) returns exactly `count` entries, the
\* i-th being the window entry at index floor(i * W / count), so item 0 gets
\* index 0; for count = 0 it returns the empty sequence and divides nothing.
C3_AssignmentFormula ==
    /\ dPc # "raised"
    /\ dNum = 0 => dDivs = 0 /\ dOut = <<>> /\ dPc \in {"call", "ret"}
    /\ \A j \in 0..(Len(dOut) - 1) :
          dOut[j + 1] = dDates[((j * Len(dDates)) \div dNum) + 1]
    /\ Len(dOut) > 0 => dOut[1] = dDates[1]
    /\ dPc = "ret" =>
        /\ Len(dOut) = dNum
        /\ dOut = distribute_dates(dNum, dDates)

C3_Witness ==
    /\ dPc = "ret"
    /\ dNum = 3
    /\ Len(dDates) = WindowDays
    /\ dOut = <<dDates[1], dDates[3], dDates[5]>>
    /\ dDivs = 3

(***************************************************************************)
(* Properties of render_template_in_value (SpecRender).                    *)
(***************************************************************************)
\* An expression of the string that the bindings cannot resolve: a name they
\* do not hold, or an expression that is no single name or is never closed.
MalformedLeaves == {EmptyExprLeaf, TwoNamesLeaf, UnclosedLeaf}
Unresolvable(toks, template_vars) ==
    \/ toks \in MalformedLeaves
    \/ \E p \in 1..Len(toks) :
          toks[p] \in Identifiers /\ toks[p] \notin DOMAIN template_vars

\* C8: rendering a string leaf that holds both markers and an expression the
\* bindings cannot resolve (unknown name, malformed expression) returns the
\* original string unchanged.
C8_UnresolvableReturnsOriginal ==
    (/\ rPc = "ret"
     /\ rValue.kind = "str"
     /\ HasOpen(rValue.s) /\ HasClose(rValue.s)
     /\ "date" \in DOMAIN rVars
     /\ Unresolvable(rValue.s, rVars)) =>
        /\ rOut.kind = "str"
        /\ Concat(rOut.s) = Concat(rValue.s)

RECURSIVE NoLeafWithBothMarkers(_)
NoLeafWithBothMarkers(v) ==
    CASE v.kind = "str" -> ~(HasOpen(v.s) /\ HasClose(v.s))
      [] v.kind \in {"list", "dict"} ->
            \A p \in 1..Len(v.items) : NoLeafWithBothMarkers(v.items[p])
      [] OTHER -> TRUE

\* C9: for every nested value in which no string leaf holds both markers, and
\* every binding map, the rendered value equals the value: same keys in the
\* same order, same lengths and element order, same leaves.
C9_NoMarkersIdentity ==
    (rPc = "ret" /\ NoLeafWithBothMarkers(rValue)) => rOut = rValue

C9_Witness ==
    /\ rPc = "ret"
    /\ rValue = List(<<Dict(<<"msg", "host">>, <<Str(OnlyOpenLeaf), Num(7)>>)>>)
    /\ rVars # NoVars
    /\ rOut = rValue


(***************************************************************************)
(* Properties of the pipeline (Spec).                                      *)
(***************************************************************************)
Fields(y, m, d) == [y |-> y, m |-> m, d |-> d]

\* The msg of the k-th processed event.
MsgOf(k) == Concat(processed[k].items[1].s)

ThreeItemRun ==
    /\ mode = "json"
    /\ clock = Date(2025, 1, 10)
    /\ events = DayEvents(3).items
    /\ Len(processed) = 3

\* C4 as stated: the three items of a 3-item template processed on 2025-01-10
\* get the window indices 0, 2, 5 and are rendered with 2025-01-10 / 0,
\* 2025-01-08 / 2 and 2025-01-05 / 5.
C4_IndicesZeroTwoFive ==
    ThreeItemRun =>
        /\ date_assignments = <<week_dates[1], week_dates[3], week_dates[6]>>
        /\ item_vars[1].date = "2025-01-10" /\ item_vars[1].day_offset = 0
        /\ item_vars[2].date = "2025-01-08" /\ item_vars[2].day_offset = 2
        /\ item_vars[3].date = "2025-01-05" /\ item_vars[3].day_offset = 5

\* C4, amended: the three items get the window indices 0, 2, 4 of the window
\* [2025-01-10 .. 2025-01-04] and are rendered with 2025-01-10 / day_offset 0,
\* 2025-01-08 / day_offset 2 and 2025-01-06 / day_offset 4.
C4_IndicesZeroTwoFour ==
    ThreeItemRun =>
        /\ Len(week_dates) = 7
        /\ week_dates[1] = Fields(2025, 1, 10)
        /\ week_dates[7] = Fields(2025, 1, 4)
        /\ date_assignments = <<week_dates[1], week_dates[3], week_dates[5]>>
        /\ item_vars[1].date = "2025-01-10" /\ item_vars[1].day_offset = 0
        /\ item_vars[2].date = "2025-01-08" /\ item_vars[2].day_offset = 2
        /\ item_vars[3].date = "2025-01-06" /\ item_vars[3].day_offset = 4
        /\ MsgOf(1) = "day 2025-01-10 offset 0"
        /\ MsgOf(2) = "day 2025-01-08 offset 2"
        /\ MsgOf(3) = "day 2025-01-06 offset 4"

C4_Witness ==
    /\ ThreeItemRun
    /\ pc = "done"
    /\ path = "ext"
    /\ MsgOf(3) = "day 2025-01-06 offset 4"

FourOkThenStatus500 ==
    /\ pc = "done"
    /\ mode = "json"
    /\ Len(outcomes) = 5
    /\ \A k \in 1..4 : outcomes[k] = Response(200)
    /\ outcomes[5] \in {Response(500), HTTPErr(500)}

\* C6 as stated: 5 items, the sink answers 200 for items 1 to 4 and 500 for
\* item 5: total 5, successful 4, failed 1, status "partial", and an errors
\* list holding exactly "item 5: HTTP 500".
C6_ErrorsItem5 ==
    (FourOkThenStatus500 /\ path = "playbook") =>
        /\ result.events_total = 5
        /\ result.events_sent = 4
        /\ result.events_failed = 1
        /\ result.status = "partial"
        /\ result.has_errors
        /\ result.errors = <<"item 5: HTTP 500">>

\* C6, amended: total 5, successful 4, failed 1, status "partial" on every
\* path that returns an aggregate result; the playbook's errors list holds
\* exactly one entry, "Event 5: HTTP 500" when the response came back with
\* status 500, "Event 5: HTTP Error 500: <reason>" when urllib raised
\* HTTPError for it.
C6_ErrorsEvent5 ==
    (FourOkThenStatus500 /\ path \in {"load", "ext", "playbook"}) =>
        /\ result.kind = "data"
        /\ result.events_total = 5
        /\ result.events_sent = 4
        /\ result.events_failed = 1
        /\ result.status = "partial"
        /\ path = "playbook" =>
              /\ result.has_errors
              /\ ~result.has_truncated
              /\ result.errors =
                   IF outcomes[5] = Response(500)
                   THEN <<"Event 5: HTTP 500">>
                   ELSE <<"Event 5: HTTP Error 500: Internal Server Error">>

C6_Witness ==
    /\ FourOkThenStatus500
    /\ path = "playbook"
    /\ outcomes[5] = Response(500)
    /\ result.errors = <<"Event 5: HTTP 500">>

\* A fatal error: the caller gets an error, or the program ends with code 1.
FatalEnd ==
    \/ result.kind \in {"error", "SystemExit"}
    \/ result.kind = "exit" /\ result.http = 1

\* C7: the malformed text "{not valid" yields a fatal error and no delivery
\* call, on every entry path.
C7_MalformedIsFatal ==
    template_content = NotValidBrace =>
        /\ calls = <<>>
        /\ pc = "done" => FatalEnd

\* The number of items the k-th call carried.
CallSize(k) == IF mode = "json" THEN 1 ELSE Len(calls[k].items[1].items)

RECURSIVE SumOver(_, _)
SumOver(S, k) ==
    IF k = 0 THEN 0
    ELSE (IF k \in S THEN CallSize(k) ELSE 0) + SumOver(S, k - 1)

\* C10: a call counts as a success exactly when the sink's response has a
\* status in [200, 300) -- 199 fails, 200 and 299 succeed, 300 fails -- and
\* every other status and every transport error is a failure.
C10_SuccessIffStatus2xx ==
    LET n    == Len(outcomes)
        good == {k \in 1..n : /\ outcomes[k].kind = "response"
                              /\ outcomes[k].status >= 200
                              /\ outcomes[k].status < 300}
    IN  /\ successful = SumOver(good, n)
        /\ failed = SumOver((1..n) \ good, n)
        /\ pc = "send_events" => Len(errors) = n - Cardinality(good)

C10_Witness ==
    /\ pc = "done"
    /\ mode = "json"
    /\ outcomes = <<Response(199), Response(200), Response(299), Response(300)>>
    /\ successful = 2
    /\ failed = 2

(***************************************************************************)
(* Properties of the report (Spec).                                        *)
(***************************************************************************)
\* The entry paths that return an aggregate result.
AggregatePaths == {"load", "ext", "playbook"}

RECURSIVE FailureTexts(_)
FailureTexts(k) ==
    IF k = 0 THEN <<>>
    ELSE IF Delivered(outcomes[k]) THEN FailureTexts(k - 1)
    ELSE Append(FailureTexts(k - 1), EventError(k, outcomes[k]))

DeliveryReported ==
    /\ pc = "done"
    /\ mode = "json"
    /\ result.kind = "data"
    /\ Len(outcomes) = Len(to_send)

\* C12: on every path that returns an aggregate result (playbook, /load,
\* extension), a run with F failed items reports the descriptions of the
\* first min(F, 10) failures in delivery order and, when F > 10, a truncated
\* count of F - 10.
C12_ErrorsOnEveryPath ==
    (DeliveryReported /\ path \in AggregatePaths) =>
        /\ failed > 0 => result.has_errors
        /\ result.errors =
             SubSeq(FailureTexts(Len(outcomes)), 1, Min(failed, ErrorsCap))
        /\ failed > ErrorsCap =>
             result.has_truncated /\ result.errors_truncated = failed - ErrorsCap

\* The same on the playbook path alone.
C12_PlaybookErrorsCapped ==
    (DeliveryReported /\ path = "playbook") =>
        /\ failed > 0 => result.has_errors
        /\ result.errors =
             SubSeq(FailureTexts(Len(outcomes)), 1, Min(failed, ErrorsCap))
        /\ result.has_truncated <=> failed > ErrorsCap
        /\ failed > ErrorsCap => result.errors_truncated = failed - ErrorsCap

C12_PlaybookTruncated ==
    /\ DeliveryReported
    /\ path = "playbook"
    /\ failed = ErrorsCap + 2
    /\ Len(result.errors) = ErrorsCap
    /\ result.errors_truncated = 2

C14_InOrderAtMostOnce ==
    (mode = "json" /\ pc \in {"render", "send_json", "send_events", "done"}) =>
        /\ Len(processed) <= Len(events)
        /\ pc = "render" =>
              \A k \in 1..Len(processed) :
                 processed[k] = render_template_in_value(events[k], item_vars[k])
        /\ Len(calls) <= Len(processed)
        /\ Len(outcomes) = Len(calls)
        /\ \A k \in 1..Len(calls) : calls[k] = processed[k]

C14_Witness ==
    /\ pc = "done"
    /\ path = "cli"
    /\ outcomes = <<Response(200), URLErr, Response(200)>>
    /\ calls = processed
    /\ calls[1] # calls[2]
    /\ calls[2] # calls[3]

(***************************************************************************)
(* Properties of the processing (Spec).                                    *)
(***************************************************************************)
\* Text that parses as JSON with a top-level value that is no array.
NotAnArray(text) ==
    LET parsed == JsonLoads(Strip(text))
    IN  parsed.ok /\ parsed.value.kind # "list"

MalformedStructured == {NotValidBrace, NotValidBracket}

\* C15: a template that parses as structured data with a top-level value
\* that is no array, or that is malformed structured syntax, is fatal: no
\* item is rendered, no delivery call is made, and the run ends in an error.
C15_NotAnArrayIsFatal ==
    (pc # "start"
     /\ (NotAnArray(template_content) \/ template_content \in MalformedStructured)) =>
        /\ processed = <<>>
        /\ calls = <<>>
        /\ pc = "done" => FatalEnd

\* The entry paths that go through process_template.
ProcessTemplatePaths == {"load", "cli", "ext"}

BeginsWithBracket(text) == Strip(text) # <<>> /\ Strip(text)[1] = "["
ParsesAsJson(text) == \E v \in JsonUniverse : JsonText(v) = Strip(text)

\* C16: process_template processes the content in structured mode exactly
\* when the trimmed content begins with '[' and parses as JSON, and in line
\* mode in every other case, content that begins with '[' and does not parse
\* included (the mode as it stands when process_template has returned and
\* before the first delivery call).
C16_StructuredIffBracketAndParses ==
    (path \in ProcessTemplatePaths /\ template_content # <<>> /\ pc # "fetched"
     /\ calls = <<>>) =>
        /\ mode = "json" <=>
             (BeginsWithBracket(template_content) /\ ParsesAsJson(template_content))
        /\ mode = "lines" <=>
             ~(BeginsWithBracket(template_content) /\ ParsesAsJson(template_content))

C16_Witness ==
    /\ path = "load"
    /\ template_content = NotValidBracket
    /\ mode = "lines"
    /\ pc = "send_lines"
    /\ calls = <<>>
    /\ Len(to_send) = 1

\* The window index of the k-th of the items.
WindowIndexOf(k) == ((k - 1) * WindowDays) \div Len(events)

\* C17: the day_offset bound for every rendered item is an integer in
\* [0, 6] and is the window index assigned to the item, at every point of a
\* run, a run during which the date changes included.
C17_DayOffsetIsWindowIndex ==
    mode = "json" =>
        \A k \in 1..Len(item_vars) :
            /\ item_vars[k].day_offset \in 0..(WindowDays - 1)
            /\ item_vars[k].day_offset = WindowIndexOf(k)

\* The same for the items whose bindings are computed on the day the window
\* was computed.
C17_SameDayOffsets ==
    clock \in RunDates => C17_DayOffsetIsWindowIndex

C17_OffsetSeven ==
    /\ pc = "done"
    /\ mode = "json"
    /\ \E k \in 1..Len(item_vars) :
          item_vars[k].day_offset = WindowDays /\ WindowIndexOf(k) = WindowDays - 1

\* C18: the window depends on the date it is generated on alone: it has 7
\* entries, entry k (k = 0..6) is that date minus k days, so the entries are
\* strictly descending calendar dates, and generating it again for the same
\* date gives the same window (the window as it stands from its generation
\* to the first delivery call).
C18_WindowOfToday ==
    (week_dates # <<>> /\ calls = <<>>) =>
        /\ Len(week_dates) = 7
        /\ strptime(week_dates[1]) \in (clock - MaxMidnights)..clock
        /\ clock \in RunDates => week_dates[1] = DateFields(clock)
        /\ \A k \in 0..6 :
              /\ strptime(week_dates[k + 1]) = strptime(week_dates[1]) - k
              /\ DateFields(strptime(week_dates[k + 1])) = week_dates[k + 1]
        /\ \A k \in 1..6 : strptime(week_dates[k]) > strptime(week_dates[k + 1])
        /\ week_dates = get_past_week_dates(strptime(week_dates[1]))

C18_Witness ==
    /\ pc = "render"
    /\ Len(processed) = Len(events)
    /\ clock = Date(2025, 1, 3)
    /\ Len(week_dates) = 7
    /\ week_dates[1] = Fields(2025, 1, 3)
    /\ week_dates[4] = Fields(2024, 12, 31)
    /\ week_dates[7] = Fields(2024, 12, 28)

(***************************************************************************)
(* Properties of the pacing (Spec).                                        *)
(***************************************************************************)
\* The entry paths whose caller can ask for a delay.
DelayPaths == {"load", "playbook"}

\* One sleep of the given length between every two consecutive calls, after
\* every call or after every call but the last; none for a length of 0.
PacedBy(wait) ==
    /\ wait = 0 => sleeps = <<>>
    /\ wait > 0 =>
          /\ \A k \in 1..Len(sleeps) : sleeps[k] = wait
          /\ Len(sleeps) \in {Len(calls) - 1, Len(calls)}

\* C19: with a positive delay the pipeline sleeps once between every two
\* consecutive sink calls, with a delay of 0 it never sleeps, in the per-item
\* delivery and in the batched line delivery, and the delay the caller asked
\* for is the one applied.
C19_CallerDelayApplied ==
    (path \in DelayPaths /\ calls # <<>>) => PacedBy(delay)

\* The same for the delay the running sender was called with.
C19_SenderDelayApplied ==
    calls # <<>> => PacedBy(pacing)

\* The per-item delivery applies the caller's delay.
C19_PerItemCallerDelay ==
    (path \in DelayPaths /\ mode = "json" /\ calls # <<>>) => PacedBy(delay)

C19_LinesSleepUnasked ==
    /\ path = "load"
    /\ mode = "lines"
    /\ delay = 0
    /\ Len(calls) = 2
    /\ sleeps = <<DefaultLineDelay>>

(***************************************************************************)
(* Properties of line mode (Spec).                                         *)
(***************************************************************************)
\* The lines of the output: "".split('\n') is [''], the output of no line.
OutputLines(text) == IF text = <<>> THEN <<>> ELSE SplitLines(text)

\* The number of non-blank lines of the template.
NonBlankCount == Len(NonBlank(SplitLines(Strip(template_content))))

LineRun == mode = "lines" /\ path \in {"load", "cli"}

\* C20: in line mode the output holds one rendered line per non-blank line
\* of the template, in the original order, and the number of lines handed to
\* delivery and reported as the total is the number of non-blank lines of
\* the template, also when a line fails to render or renders to nothing.
C20_LineCountKept ==
    LineRun =>
        /\ Len(events) = NonBlankCount
        /\ pc \in {"send_lines", "done"} =>
              /\ Len(processed) = NonBlankCount
              /\ Len(OutputLines(output.s)) = NonBlankCount
              /\ Len(to_send) = NonBlankCount
        /\ (pc = "done" /\ path = "load") => result.events_total = NonBlankCount

\* The output of process_template alone: one line per non-blank line, the
\* k-th the rendering of the k-th, or the k-th itself when it fails to render.
C20_OutputLinesKept ==
    LineRun =>
        /\ Len(events) = NonBlankCount
        /\ \A k \in 1..Len(processed) :
              processed[k] = Str(RenderLine(events[k].s, item_vars[k]))
        /\ pc \in {"send_lines", "done"} =>
              /\ Len(processed) = NonBlankCount
              /\ OutputLines(output.s) = [k \in 1..NonBlankCount |-> processed[k].s]

C20_RenderedLineDropped ==
    /\ LineRun
    /\ path = "load"
    /\ pc = "done"
    /\ template_content = LogLines
    /\ NonBlankCount = 4
    /\ Concat(processed[3].s) = ""
    /\ processed[4].s = EmptyExprLeaf
    /\ result.events_total = 3


(***************************************************************************)
(* Properties of an unreadable template source (Spec).                     *)
(***************************************************************************)
\* The run ended in the fetch: nothing was read and nothing was parsed.
FetchFailed == pc = "done" /\ template_content = <<>> /\ mode = "none"

\* The callers of the whole pipeline the statement names.
PipelineCallers == {"load", "ext"}

\* C21: when the template source is unreadable the run aborts before any
\* sink call, and the caller of the whole pipeline (the /load endpoint, the
\* load action of the extension) receives one descriptive failure result,
\* not an uncaught termination.
C21_FetchFailureReported ==
    (FetchFailed /\ path \in PipelineCallers) =>
        /\ calls = <<>>
        /\ result.kind = "error"
        /\ result.error # ""

\* The part of C21 that the code keeps: no sink call and no sleep after a
\* failed fetch, on every entry path.
C21_NoCallAfterFetchFailure ==
    FetchFailed => calls = <<>> /\ sleeps = <<>> /\ processed = <<>>

\* The playbook, whose own fetch_template raises, does report the failure.
C21_PlaybookFetchFailureReported ==
    (FetchFailed /\ path = "playbook") => result.kind = "error" /\ result.error # ""

\* sys.exit(1) leaves the /load handler.
C21_LoadExits == FetchFailed /\ path = "load" /\ result = SystemExit

(***************************************************************************)
(* Properties of the counters (Spec).                                      *)
(***************************************************************************)
Senders == {"send_json", "send_events", "send_lines"}

\* The items handled after the loop variable reached i.
Attempted(i) == Min(i, Len(to_send))

\* One iteration of a sender's loop: the items it handled are added to
\* exactly one of the two counters, and the other one keeps its value.
CountedOnce ==
    LET handled == Attempted(send_i') - Attempted(send_i)
    IN  /\ handled > 0
        /\ \/ successful' = successful + handled /\ failed' = failed
           \/ failed' = failed + handled /\ successful' = successful

\* A step of a running sender: no counter decreases; an iteration counts
\* its items once, and the return leaves the counters alone.
CountersStep ==
    pc \in Senders =>
        /\ successful' >= successful
        /\ failed' >= failed
        /\ pc' \in Senders => CountedOnce
        /\ pc' = "done" => successful' = successful /\ failed' = failed

\* C22: during every delivery run the successful and failed counters never
\* decrease; after the k-th item (or batch) has been handled successful +
\* failed is the number of items attempted so far; when the run returns
\* successful + failed is the total number of items; every item increments
\* exactly one of the two counters exactly once.
C22_CountersAddUp ==
    /\ [](pc \in Senders => successful + failed = Attempted(send_i))
    /\ [](pc = "done" /\ to_send # <<>> => successful + failed = Len(to_send))
    /\ [](result.kind = "data" =>
            /\ result.events_sent = successful
            /\ result.events_failed = failed
            /\ result.events_sent + result.events_failed = result.events_total)
    /\ [][CountersStep]_vars

\* A run of five events of which two were accepted, and a run of eleven
\* lines in two batches.
C22_Witness ==
    /\ pc = "done"
    /\ result.kind = "data"
    /\ Len(to_send) = 5
    /\ Len(calls) = 5
    /\ successful = 2
    /\ failed = 3

C22_BatchWitness ==
    /\ pc = "done"
    /\ mode = "lines"
    /\ Len(to_send) = DefaultBatchSize + 1
    /\ Len(calls) = 2
    /\ successful + failed = DefaultBatchSize + 1

(***************************************************************************)
(* Properties of batched line delivery (SpecBatch).                        *)
(***************************************************************************)
\* ceil(n / b)
CeilDiv(n, b) == (n + b - 1) \div b

\* The slice of the lines that the k-th batch has to hold.
SliceOf(k) ==
    SubSeq(to_send, (k - 1) * batch_size + 1, Min(k * batch_size, Len(to_send)))

\* The payload is {"events": [{"raw": line}, ...]} over the given lines.
WrapsLines(payload, lines) ==
    /\ payload.kind = "dict"
    /\ payload.keys = <<"events">>
    /\ Len(payload.items) = 1
    /\ payload.items[1].kind = "list"
    /\ Len(payload.items[1].items) = Len(lines)
    /\ \A p \in 1..Len(lines) :
          LET entry == payload.items[1].items[p]
          IN  /\ entry.kind = "dict"
              /\ entry.keys = <<"raw">>
              /\ entry.items = <<lines[p]>>

\* The lines of the batches whose call the sink accepted / did not accept.
RECURSIVE LinesCounted(_, _)
LinesCounted(accepted, k) ==
    IF k = 0 THEN 0
    ELSE (IF Delivered(outcomes[k]) = accepted THEN Len(SliceOf(k)) ELSE 0)
         + LinesCounted(accepted, k - 1)

\* C23: batched line delivery with batch size B >= 1 over n lines makes
\* exactly ceil(n/B) sink calls; the batches are consecutive slices that
\* partition the lines in order, each of size B except possibly the last,
\* each wrapped as {"events": [{"raw": line}, ...]}; the outcome of a
\* batch's call is counted once for every line of that batch.
C23_BatchesPartitionLines ==
    /\ Len(calls) = CeilDiv(Attempted(send_i), batch_size)
    /\ Len(outcomes) = Len(calls)
    /\ pc = "done" => Len(calls) = CeilDiv(Len(to_send), batch_size)
    /\ \A k \in 1..Len(calls) :
          /\ WrapsLines(calls[k], SliceOf(k))
          /\ Len(SliceOf(k)) >= 1
          /\ k < Len(calls) => Len(SliceOf(k)) = batch_size
    /\ successful = LinesCounted(TRUE, Len(calls))
    /\ failed = LinesCounted(FALSE, Len(calls))

\* Five lines in batches of two: three calls, the last one with one line,
\* the second one refused.
C23_Witness ==
    /\ pc = "done"
    /\ result.kind = "counts"
    /\ Len(to_send) = 5
    /\ batch_size = 2
    /\ Len(calls) = 3
    /\ Len(calls[3].items[1].items) = 1
    /\ outcomes = <<Response(200), Response(500), Response(200)>>
    /\ successful = 3
    /\ failed = 2

(***************************************************************************)
(* Properties of the subscribe handler (SpecSubscribe).                    *)
(***************************************************************************)
\* The calls of a handler that goes through all three steps, in order.
AllSteps == <<"webhook">> \o RuleNames \o <<"load">>

\* The entries of results["errors"] that a rule left.
RuleErrorTexts ==
    {"Rule " \o RuleNames[k] \o " failed: " \o o :
        k \in 1..Len(RuleNames), o \in RuleOutcomes \ {"ok"}}
RuleErrors ==
    Cardinality({p \in 1..Len(results.errors) : results.errors[p] \in RuleErrorTexts})

SubscribeEnded == sub_pc \in {"returned", "SystemExit"}

\* The three steps run in the fixed order.
SubscribeInOrder == attempts = SubSeq(AllSteps, 1, Len(attempts))

\* Every rule is attempted, whatever the earlier ones came to.
EveryRuleAttempted ==
    /\ results.rules_deployed + RuleErrors = rule_i
    /\ SubscribeEnded =>
          /\ rule_i = Len(RuleNames)
          /\ \A k \in 1..Len(RuleNames) : attempts[k + 1] = RuleNames[k]

\* The load only after all rules, with auto-load on and the webhook there.
LoadOnlyWhenDue ==
    (attempts # <<>> /\ attempts[Len(attempts)] = "load") =>
        /\ Len(attempts) = Len(AllSteps)
        /\ rule_i = Len(RuleNames)
        /\ auto_load
        /\ results.webhook_created

\* C24: in the subscribe handler the three steps run in the fixed order
\* webhook creation, rule deployment, demo-data load; every rule of
\* DR_RULES is attempted regardless of earlier rule failures (rules_deployed
\* plus the number of rule errors is the number of rules); the load is
\* attempted only after all rules were attempted and only if auto-load is
\* enabled and the webhook was created or already existed; the handler
\* always returns a data result, never an exception, whichever steps fail.
C24_SubscribeAlwaysReturns ==
    /\ SubscribeInOrder
    /\ EveryRuleAttempted
    /\ LoadOnlyWhenDue
    /\ sub_pc # "SystemExit"

\* The part of C24 that the code keeps: the order, the rules, the condition
\* of the load, and a data result whenever the template could be read.
C24_OrderRulesAndCondition ==
    /\ SubscribeInOrder
    /\ EveryRuleAttempted
    /\ LoadOnlyWhenDue
    /\ (attempts # <<>> /\ sub_pc \notin {"returned", "SystemExit"}) =>
          sub_pc \in {"rules", "return"}

\* A handler that returned although the webhook and three rules failed.
C24_ReturnedAfterFailures ==
    /\ sub_pc = "returned"
    /\ ~results.webhook_created
    /\ results.rules_deployed = Len(RuleNames) - 3
    /\ Len(results.errors) = 4
    /\ Len(attempts) = Len(RuleNames) + 1

\* A handler left by sys.exit(1) after every rule was deployed.
C24_SubscribeExits ==
    /\ sub_pc = "SystemExit"
    /\ results.rules_deployed = Len(RuleNames)
    /\ results.errors = <<>>
=============================================================================
